---- MODULE Spec2Model ----
(***************************************************************************)
(* Model of the webgraphy backend: the request handlers of                 *)
(* backend/app/api/routes/graphs.py over an ArangoDB store, and the store  *)
(* initialisation of backend/app/db/database.py.                           *)
(*                                                                         *)
(* Python dicts are functions over a set of string keys; every value is a  *)
(* string, so that `doc.get(k, default)` and AQL attribute access can be   *)
(* modelled by what they do on an absent key.                              *)
(***************************************************************************)
EXTENDS Integers, Sequences, FiniteSets, TLC

VARIABLES
    nodes,        \* documents of the 'nodes' collection
    edges,        \* documents of the 'edges' collection
    resp,         \* outcome of the last request served
    created,      \* history: the input of every node created, by the id returned
    database,     \* the application database exists
    collections,  \* collections of the application database
    graph,        \* the graph 'webgraph': exists, vertex collections, edge definitions
    pc            \* position of each concurrent get_db call

vars == <<nodes, edges, resp, created, database, collections, graph, pc>>
storeVars == <<database, collections, graph, pc>>

----------------------------------------------------------------------------
(* Bounds *)

MaxNodes == 3      \* nodes stored in the traversal specification
MaxEdges == 3      \* edges stored in the traversal specification
MaxDocs == 2       \* nodes stored in the CRUD specification
MaxLinks == 1      \* edges stored in the CRUD specification
NumRequests == 2   \* concurrent get_db calls

----------------------------------------------------------------------------
(* Program constants *)

LimitCeiling == 1000
DepthCeiling == 3

----------------------------------------------------------------------------
(* Values *)

None == "None"                       \* Python None / AQL null
EmptyMap == "{}"                     \* the empty properties map
EmptyDict == [k \in {} |-> None]     \* a dict without keys; also the AQL null document

Min(a, b) == IF a < b THEN a ELSE b

RECURSIVE SeqOf(_)
\* a sequence holding each element of S once (iteration order of a cursor)
SeqOf(S) ==
    IF S = {} THEN <<>>
    ELSE LET x == CHOOSE y \in S : TRUE IN <<x>> \o SeqOf(S \ {x})

Range(s) == {s[i] : i \in 1..Len(s)}

\* dict.get(key, default)
Get(d, k, default) == IF k \in DOMAIN d THEN d[k] ELSE default

\* AQL attribute access: an absent attribute (or any attribute of null) is null
AqlAttr(d, k) == IF k \in DOMAIN d THEN d[k] ELSE None

\* del d[k]
Del(d, k) == [j \in DOMAIN d \ {k} |-> d[j]]

\* the document handle of a key of the 'nodes' collection (f"nodes/{node_id}")
Handle(key) == "nodes/" \o key

\* keys the store generates: one per inserted document, never reused
NodeKey(n) == ToString(n)
EdgeKey(n) == "e" \o ToString(n)

----------------------------------------------------------------------------
(* Store calls and their failure *)

\* the store calls get_db makes against an initialised store
get_db_calls == <<"has_database", "has_collection", "has_collection", "has_graph">>

StoreReady ==
    /\ database
    /\ {"nodes", "edges"} \subseteq collections
    /\ graph.exists

\* str(e) of the exception a failing store call raises
ErrMsg(call) == call \o " failed"

\* A response records the store calls the request made (calls) and the index
\* of the one that failed (fault, 0 when none did).

\* an exception raised in the get_db dependency is not caught by any handler
Unhandled(op, req, made) ==
    [op |-> op, req |-> req, status |-> 500,
     detail |-> [prefix |-> "Internal Server Error", cause |-> None],
     body |-> None, calls |-> made, fault |-> Len(made)]

\* raise HTTPException(status_code=500, detail=f"{prefix}{str(e)}")
ServerError(op, req, prefix, made) ==
    [op |-> op, req |-> req, status |-> 500,
     detail |-> [prefix |-> prefix, cause |-> ErrMsg(made[Len(made)])],
     body |-> None, calls |-> made, fault |-> Len(made)]

NotFound(op, req, made) ==
    [op |-> op, req |-> req, status |-> 404,
     detail |-> [prefix |-> "Node not found", cause |-> None],
     body |-> None, calls |-> made, fault |-> 0]

\* Query(..., gt=0, le=...) rejects the request before the handler body runs;
\* the get_db dependency has been resolved by then
Invalid(op, req) ==
    [op |-> op, req |-> req, status |-> 422,
     detail |-> [prefix |-> "validation error", cause |-> None],
     body |-> None, calls |-> get_db_calls, fault |-> 0]

Ok(op, req, status, body, made) ==
    [op |-> op, req |-> req, status |-> status,
     detail |-> [prefix |-> "", cause |-> None],
     body |-> body, calls |-> made, fault |-> 0]

\* the calls made when the failAt-th call of `planned` fails (0: none fails)
Made(planned, failAt) ==
    IF failAt \in 1..Len(planned) THEN SubSeq(planned, 1, failAt) ELSE planned

Fails(planned, failAt) == failAt \in 1..Len(planned)
FailsInGetDb(failAt) == failAt \in 1..Len(get_db_calls)

----------------------------------------------------------------------------
(* Request inputs *)

Labels == {"L"}
Types == {"person", "place"}
PropertyMaps == {"{name:X}"}
InputIds == {None, "x"}

\* node.dict(exclude_unset=True): label and type are required, id and
\* properties are present only when the request body sets them
NodeInputs ==
    { [label |-> l, type |-> t] @@ i @@ p :
        l \in Labels, t \in Types,
        i \in {EmptyDict} \cup {[id |-> x] : x \in InputIds},
        p \in {EmptyDict} \cup {[properties |-> m] : m \in PropertyMaps} }

PlainNodeInputs == { [label |-> "L", type |-> "person"] }

----------------------------------------------------------------------------
(* create_node *)

\* nodes_collection.insert(node_dict): the store adds _key
InsertNode(node_dict) == ("_key" :> NodeKey(Cardinality(nodes) + 1)) @@ node_dict

create_node(node, failAt) ==
    LET node_dict == IF "id" \in DOMAIN node /\ node["id"] = None
                     THEN Del(node, "id") ELSE node
        planned == get_db_calls \o <<"insert">>
        made == Made(planned, failAt)
        doc == InsertNode(node_dict)
    IN  /\ StoreReady
        /\ IF FailsInGetDb(failAt)
           THEN /\ resp' = Unhandled("create_node", node, made)
                /\ UNCHANGED <<nodes, created>>
           ELSE IF Fails(planned, failAt)
           THEN /\ resp' = ServerError("create_node", node, "Failed to create node: ", made)
                /\ UNCHANGED <<nodes, created>>
           ELSE /\ nodes' = nodes \cup {doc}
                /\ resp' = Ok("create_node", node, 201,
                              ("id" :> doc["_key"]) @@ node_dict, made)
                /\ created' = (doc["_key"] :> node) @@ created
        /\ UNCHANGED <<edges, storeVars>>

----------------------------------------------------------------------------
(* get_node *)

\* nodes_collection.get(node_id): the document, or nothing
GetDoc(node_id) == {d \in nodes : d["_key"] = node_id}

\* FormatNode reading properties without the {} default
FormatNode_null(doc) ==
    [id |-> doc["_key"],
     label |-> Get(doc, "label", ""),
     type |-> Get(doc, "type", ""),
     properties |-> AqlAttr(doc, "properties")]

FormatNode(doc) ==
    [id |-> doc["_key"],
     label |-> Get(doc, "label", ""),
     type |-> Get(doc, "type", ""),
     properties |-> Get(doc, "properties", EmptyMap)]

get_node(node_id, failAt) ==
    LET planned == get_db_calls \o <<"get">>
        made == Made(planned, failAt)
        found == GetDoc(node_id)
    IN  /\ StoreReady
        /\ resp' =
             IF FailsInGetDb(failAt) THEN Unhandled("get_node", node_id, made)
             ELSE IF Fails(planned, failAt)
             THEN ServerError("get_node", node_id, "Failed to fetch node: ", made)
             ELSE IF found = {} THEN NotFound("get_node", node_id, made)
             ELSE Ok("get_node", node_id, 200,
                     FormatNode(CHOOSE d \in found : TRUE), made)
        /\ UNCHANGED <<nodes, edges, created, storeVars>>

----------------------------------------------------------------------------
(* get_nodes *)

Limits == {0, 1, 2, LimitCeiling, LimitCeiling + 1}
NoType == "<absent>"                 \* the request carries no type parameter
TypeFilters == {NoType, "", "person", "place"}

ValidLimit(limit) == limit > 0 /\ limit <= LimitCeiling

\* FOR d IN coll LIMIT @limit RETURN d: any `limit` of the documents, in store order
Scan(docs, limit) ==
    {S \in SUBSET docs : Cardinality(S) = Min(limit, Cardinality(docs))}

\* `if type:` -- an empty string is falsy, as is an absent parameter
Truthy(type) == type # NoType /\ type # ""

\* the documents the query of get_nodes ranges over
NodesQuery(type) ==
    IF Truthy(type) THEN {d \in nodes : AqlAttr(d, "type") = type} ELSE nodes

get_nodes(type, limit, failAt) ==
    LET req == [type |-> type, limit |-> limit]
        planned == get_db_calls \o <<"execute">>
        made == Made(planned, failAt)
    IN  /\ StoreReady
        /\ IF FailsInGetDb(failAt) THEN resp' = Unhandled("get_nodes", req, made)
           ELSE IF ~ValidLimit(limit) THEN resp' = Invalid("get_nodes", req)
           ELSE IF Fails(planned, failAt)
           THEN resp' = ServerError("get_nodes", req, "Failed to fetch nodes: ", made)
           ELSE \E cursor \in Scan(NodesQuery(type), limit) :
                    resp' = Ok("get_nodes", req, 200,
                               SeqOf({FormatNode(d) : d \in cursor}), made)
        /\ UNCHANGED <<nodes, edges, created, storeVars>>

----------------------------------------------------------------------------
(* create_edge *)

KeySpace == MaxNodes + MaxDocs
\* strings of the form "collection/key", the only values the store accepts
\* for _from and _to; the store does not look the document up
Handles == {Handle(NodeKey(n)) : n \in 1..KeySpace}

EdgeInput(from, to) == [from_node |-> from, to_node |-> to, label |-> "LINKS"]

\* edge_dict["_from"] = edge_dict.pop("from_node"), likewise _to
ToArango(edge_dict) ==
    ("_from" :> edge_dict["from_node"]) @@ ("_to" :> edge_dict["to_node"])
        @@ Del(Del(edge_dict, "from_node"), "to_node")

\* edges_collection.insert(edge_dict): the store adds _key
InsertEdge(edge_dict) == ("_key" :> EdgeKey(Cardinality(edges) + 1)) @@ edge_dict

create_edge(edge, failAt) ==
    LET stripped == IF "id" \in DOMAIN edge /\ edge["id"] = None
                    THEN Del(edge, "id") ELSE edge
        edge_dict == ToArango(stripped)
        planned == get_db_calls \o <<"insert">>
        made == Made(planned, failAt)
        rejected == ~(edge_dict["_from"] \in Handles /\ edge_dict["_to"] \in Handles)
        doc == InsertEdge(edge_dict)
    IN  /\ StoreReady
        /\ IF FailsInGetDb(failAt)
           THEN /\ resp' = Unhandled("create_edge", edge, made)
                /\ UNCHANGED edges
           ELSE IF Fails(planned, failAt) \/ rejected
           THEN /\ resp' = ServerError("create_edge", edge, "Failed to create edge: ", made)
                /\ UNCHANGED edges
           ELSE /\ edges' = edges \cup {doc}
                /\ resp' = Ok("create_edge", edge, 201,
                              [id |-> doc["_key"],
                               from_node |-> edge_dict["_from"],
                               to_node |-> edge_dict["_to"],
                               label |-> Get(edge_dict, "label", ""),
                               properties |-> Get(edge_dict, "properties", EmptyMap)],
                              made)
        /\ UNCHANGED <<nodes, created, storeVars>>

----------------------------------------------------------------------------
(* get_edges, get_graph *)

FormatEdge(doc) ==
    [id |-> doc["_key"],
     from_node |-> doc["_from"],
     to_node |-> doc["_to"],
     label |-> Get(doc, "label", ""),
     properties |-> Get(doc, "properties", EmptyMap)]

get_edges(limit, failAt) ==
    LET req == [limit |-> limit]
        planned == get_db_calls \o <<"execute">>
        made == Made(planned, failAt)
    IN  /\ StoreReady
        /\ IF FailsInGetDb(failAt) THEN resp' = Unhandled("get_edges", req, made)
           ELSE IF ~ValidLimit(limit) THEN resp' = Invalid("get_edges", req)
           ELSE IF Fails(planned, failAt)
           THEN resp' = ServerError("get_edges", req, "Failed to fetch edges: ", made)
           ELSE \E cursor \in Scan(edges, limit) :
                    resp' = Ok("get_edges", req, 200,
                               SeqOf({FormatEdge(d) : d \in cursor}), made)
        /\ UNCHANGED <<nodes, edges, created, storeVars>>

get_graph(limit, failAt) ==
    LET req == [limit |-> limit]
        planned == get_db_calls \o <<"execute", "execute">>
        made == Made(planned, failAt)
    IN  /\ StoreReady
        /\ IF FailsInGetDb(failAt) THEN resp' = Unhandled("get_graph", req, made)
           ELSE IF ~ValidLimit(limit) THEN resp' = Invalid("get_graph", req)
           ELSE IF Fails(planned, failAt)
           THEN resp' = ServerError("get_graph", req, "Failed to fetch graph: ", made)
           ELSE \E nodes_cursor \in Scan(nodes, limit), edges_cursor \in Scan(edges, limit) :
                    resp' = Ok("get_graph", req, 200,
                               [nodes |-> SeqOf({FormatNode(d) : d \in nodes_cursor}),
                                edges |-> SeqOf({FormatEdge(d) : d \in edges_cursor})],
                               made)
        /\ UNCHANGED <<nodes, edges, created, storeVars>>

----------------------------------------------------------------------------
(* get_node_neighbors *)

ValidDepth(depth) == depth > 0 /\ depth <= DepthCeiling

\* DOCUMENT(@node_id), and the vertex a traversal step emits: the document
\* with that handle, or null when no such document is stored
Document(handle) ==
    IF \E d \in nodes : Handle(d["_key"]) = handle
    THEN CHOOSE d \in nodes : Handle(d["_key"]) = handle
    ELSE EmptyDict

\* the edges a traversal of GRAPH 'webgraph' follows: those of its edge definitions
GraphEdges == IF "edges" \in graph.edgeDefs THEN edges ELSE {}

\* Incident for an OUTBOUND traversal
Incident_outbound(v) == {e \in GraphEdges : e["_from"] = v}

\* ANY: an edge is followed from either of its endpoints
Incident(v) == {e \in GraphEdges : e["_from"] = v \/ e["_to"] = v}
Other(e, v) == IF e["_from"] = v THEN e["_to"] ELSE e["_from"]

\* Traverse ignoring the depth: direct neighbours only
Traverse_one(v, used, depth) ==
    {[vertex |-> Document(Other(e, v)), edge |-> e] : e \in Incident(v) \ used}

RECURSIVE Traverse(_, _, _)
\* FOR v, e IN 1..@depth ANY @node_id GRAPH 'webgraph' RETURN {vertex: v, edge: e}
\* with the default options: no edge twice on a path, vertices may repeat
Traverse(v, used, depth) ==
    IF depth = 0 THEN {}
    ELSE UNION { {[vertex |-> Document(Other(e, v)), edge |-> e]}
                    \cup Traverse(Other(e, v), used \cup {e}, depth - 1)
                 : e \in Incident(v) \ used }

NodeObject(d) ==
    [_key |-> AqlAttr(d, "_key"), label |-> AqlAttr(d, "label"),
     type |-> AqlAttr(d, "type"), properties |-> AqlAttr(d, "properties")]

EdgeObject(d) ==
    [_key |-> AqlAttr(d, "_key"), _from |-> AqlAttr(d, "_from"),
     _to |-> AqlAttr(d, "_to"), label |-> AqlAttr(d, "label"),
     properties |-> AqlAttr(d, "properties")]

\* QueryNodes without the start node
QueryNodes_noStart(start_node, neighbors) ==
    SeqOf({NodeObject(n.vertex) : n \in neighbors})

\* LET nodes = APPEND([start_node...], (FOR n IN neighbors RETURN DISTINCT {...}))
QueryNodes(start_node, neighbors) ==
    <<NodeObject(start_node)>> \o SeqOf({NodeObject(n.vertex) : n \in neighbors})

\* LET edges = (FOR n IN neighbors FILTER n.edge != null RETURN DISTINCT {...})
QueryEdges(neighbors) == SeqOf({EdgeObject(n.edge) : n \in neighbors})

\* the traversal query as a whole
Query(full_node_id, depth) ==
    LET neighbors == Traverse(full_node_id, {}, depth)
    IN  [nodes |-> QueryNodes(Document(full_node_id), neighbors),
         edges |-> QueryEdges(neighbors)]

\* formatted_nodes / formatted_edges: the query result has every key, so
\* .get() returns the stored value, null included
FormatResult(result) ==
    [nodes |-> [i \in 1..Len(result.nodes) |->
                  [id |-> result.nodes[i]["_key"],
                   label |-> Get(result.nodes[i], "label", ""),
                   type |-> Get(result.nodes[i], "type", ""),
                   properties |-> Get(result.nodes[i], "properties", EmptyMap)]],
     edges |-> [i \in 1..Len(result.edges) |->
                  [id |-> result.edges[i]["_key"],
                   from_node |-> result.edges[i]["_from"],
                   to_node |-> result.edges[i]["_to"],
                   label |-> Get(result.edges[i], "label", ""),
                   properties |-> Get(result.edges[i], "properties", EmptyMap)]]]

\* Has testing the collection instead of the key
Has_nonempty(node_id) == nodes # {}

\* nodes_collection.has(node_id)
Has(node_id) == \E d \in nodes : d["_key"] = node_id

get_node_neighbors(node_id, depth, failAt) ==
    LET req == [node_id |-> node_id, depth |-> depth]
        planned == get_db_calls \o <<"has">>
                     \o (IF Has(node_id) THEN <<"execute">> ELSE <<>>)
        made == Made(planned, failAt)
    IN  /\ StoreReady
        /\ resp' =
             IF FailsInGetDb(failAt) THEN Unhandled("get_node_neighbors", req, made)
             ELSE IF ~ValidDepth(depth) THEN Invalid("get_node_neighbors", req)
             ELSE IF Fails(planned, failAt)
             THEN ServerError("get_node_neighbors", req,
                              "Failed to fetch node neighbors: ", made)
             ELSE IF ~Has(node_id) THEN NotFound("get_node_neighbors", req, made)
             ELSE Ok("get_node_neighbors", req, 200,
                     FormatResult(Query(Handle(node_id), depth)), made)
        /\ UNCHANGED <<nodes, edges, created, storeVars>>

----------------------------------------------------------------------------
(* Initial states *)

NoResponse ==
    [op |-> "none", req |-> None, status |-> 0,
     detail |-> [prefix |-> "", cause |-> None], body |-> None, calls |-> <<>>,
     fault |-> 0]

Procs == 1..NumRequests

\* the store once a get_db call has run to completion; no document stored
Init ==
    /\ nodes = {}
    /\ edges = {}
    /\ resp = NoResponse
    /\ created = EmptyDict
    /\ database = TRUE
    /\ collections = {"nodes", "edges"}
    /\ graph = [exists |-> TRUE, vertex |-> {"nodes"}, edgeDefs |-> {"edges"}]
    /\ pc = [p \in Procs |-> "returned"]

----------------------------------------------------------------------------
(* Request parameters *)

\* ids a request may name: keys the store generates (stored or not) and a
\* client-chosen id
NodeIds(max) == {NodeKey(n) : n \in 1..max + 1} \cup {"x"}
\* endpoints a request may name: handles, and a bare node id
Endpoints(max) == {Handle(NodeKey(n)) : n \in 1..max} \cup {NodeKey(1)}
\* which store call of the request fails (0: none)
FailPoints == 0..(Len(get_db_calls) + 2)
Depths == 0..(DepthCeiling + 1)

----------------------------------------------------------------------------
(* The CRUD specification: creation with every node input, lookups and
   listings, over a store whose calls succeed *)

CreateNode == \E n \in NodeInputs :
    Cardinality(nodes) < MaxDocs /\ create_node(n, 0)
GetNodes == \E t \in TypeFilters, l \in Limits : get_nodes(t, l, 0)
GetNode == \E id \in NodeIds(MaxDocs) : get_node(id, 0)
CreateEdge == \E from \in Endpoints(MaxDocs), to \in Endpoints(MaxDocs) :
    Cardinality(edges) < MaxLinks /\ create_edge(EdgeInput(from, to), 0)
GetEdges == \E l \in Limits : get_edges(l, 0)
GetGraph == \E l \in Limits : get_graph(l, 0)

Next ==
    \/ CreateNode
    \/ GetNodes
    \/ GetNode
    \/ CreateEdge
    \/ GetEdges
    \/ GetGraph

Spec == Init /\ [][Next]_vars

----------------------------------------------------------------------------
(* The failure specification: every handler, any store call of a request
   may fail *)

TryCreateNode == \E n \in PlainNodeInputs, f \in FailPoints :
    Cardinality(nodes) < MaxDocs /\ create_node(n, f)
TryGetNodes == \E t \in {NoType, "person"}, l \in {1, LimitCeiling}, f \in FailPoints :
    get_nodes(t, l, f)
TryGetNode == \E id \in NodeIds(MaxDocs), f \in FailPoints : get_node(id, f)
TryCreateEdge == \E from \in Endpoints(MaxDocs), to \in Endpoints(MaxDocs), f \in FailPoints :
    Cardinality(edges) < MaxLinks /\ create_edge(EdgeInput(from, to), f)
TryGetEdges == \E l \in {1, LimitCeiling}, f \in FailPoints : get_edges(l, f)
TryGetGraph == \E l \in {1, LimitCeiling}, f \in FailPoints : get_graph(l, f)
TryGetNodeNeighbors == \E id \in NodeIds(MaxDocs), d \in Depths, f \in FailPoints :
    get_node_neighbors(id, d, f)

NextFail ==
    \/ TryCreateNode
    \/ TryGetNodes
    \/ TryGetNode
    \/ TryCreateEdge
    \/ TryGetEdges
    \/ TryGetGraph
    \/ TryGetNodeNeighbors

SpecFail == Init /\ [][NextFail]_vars

----------------------------------------------------------------------------
(* The traversal specification: graphs of up to MaxNodes nodes and MaxEdges
   edges, and their neighbourhoods *)

AddNode == \E n \in PlainNodeInputs :
    Cardinality(nodes) < MaxNodes /\ create_node(n, 0)
AddEdge == \E from \in Endpoints(MaxNodes), to \in Endpoints(MaxNodes) :
    Cardinality(edges) < MaxEdges /\ create_edge(EdgeInput(from, to), 0)
Neighbors == \E id \in NodeIds(MaxNodes), d \in 1..DepthCeiling :
    get_node_neighbors(id, d, 0)

NextGraph == AddNode \/ AddEdge \/ Neighbors

SpecGraph == Init /\ [][NextGraph]_vars

----------------------------------------------------------------------------
(* get_db, one store call per step, called concurrently by NumRequests
   requests against a store that has no application database yet *)

InitDb ==
    /\ nodes = {}
    /\ edges = {}
    /\ resp = NoResponse
    /\ created = EmptyDict
    /\ database = FALSE
    /\ collections = {}
    /\ graph = [exists |-> FALSE, vertex |-> {}, edgeDefs |-> {}]
    /\ pc = [p \in Procs |-> "has_database"]

Goto(p, label) == pc' = [pc EXCEPT ![p] = label]

\* if not sys_db.has_database(settings.ARANGO_DB)
HasDatabase(p) ==
    /\ pc[p] = "has_database"
    /\ Goto(p, IF database THEN "has_nodes" ELSE "create_database")
    /\ UNCHANGED <<nodes, edges, resp, created, database, collections, graph>>

\* sys_db.create_database(...): raises when the database exists by now
CreateDatabase(p) ==
    /\ pc[p] = "create_database"
    /\ IF database
       THEN Goto(p, "raised") /\ UNCHANGED database
       ELSE Goto(p, "has_nodes") /\ database' = TRUE
    /\ UNCHANGED <<nodes, edges, resp, created, collections, graph>>

\* if not db.has_collection("nodes")
HasNodes(p) ==
    /\ pc[p] = "has_nodes"
    /\ Goto(p, IF "nodes" \in collections THEN "has_edges" ELSE "create_nodes")
    /\ UNCHANGED <<nodes, edges, resp, created, database, collections, graph>>

\* db.create_collection("nodes"): raises on a duplicate name
CreateNodes(p) ==
    /\ pc[p] = "create_nodes"
    /\ IF "nodes" \in collections
       THEN Goto(p, "raised") /\ UNCHANGED collections
       ELSE Goto(p, "has_edges") /\ collections' = collections \cup {"nodes"}
    /\ UNCHANGED <<nodes, edges, resp, created, database, graph>>

\* if not db.has_collection("edges")
HasEdges(p) ==
    /\ pc[p] = "has_edges"
    /\ Goto(p, IF "edges" \in collections THEN "has_graph" ELSE "create_edges")
    /\ UNCHANGED <<nodes, edges, resp, created, database, collections, graph>>

\* db.create_collection("edges", edge=True)
CreateEdges(p) ==
    /\ pc[p] = "create_edges"
    /\ IF "edges" \in collections
       THEN Goto(p, "raised") /\ UNCHANGED collections
       ELSE Goto(p, "has_graph") /\ collections' = collections \cup {"edges"}
    /\ UNCHANGED <<nodes, edges, resp, created, database, graph>>

\* if not db.has_graph("webgraph"); otherwise return db
HasGraph(p) ==
    /\ pc[p] = "has_graph"
    /\ Goto(p, IF graph.exists THEN "returned" ELSE "create_graph")
    /\ UNCHANGED <<nodes, edges, resp, created, database, collections, graph>>

\* graph = db.create_graph("webgraph"): a graph without collections
CreateGraph(p) ==
    /\ pc[p] = "create_graph"
    /\ IF graph.exists
       THEN Goto(p, "raised") /\ UNCHANGED graph
       ELSE Goto(p, "has_vertex_collection") /\ graph' = [graph EXCEPT !.exists = TRUE]
    /\ UNCHANGED <<nodes, edges, resp, created, database, collections>>

\* if not graph.has_vertex_collection("nodes")
HasVertexCollection(p) ==
    /\ pc[p] = "has_vertex_collection"
    /\ Goto(p, IF "nodes" \in graph.vertex THEN "has_edge_definition"
               ELSE "create_vertex_collection")
    /\ UNCHANGED <<nodes, edges, resp, created, database, collections, graph>>

\* graph.create_vertex_collection("nodes")
CreateVertexCollection(p) ==
    /\ pc[p] = "create_vertex_collection"
    /\ IF "nodes" \in graph.vertex
       THEN Goto(p, "raised") /\ UNCHANGED graph
       ELSE /\ Goto(p, "has_edge_definition")
            /\ graph' = [graph EXCEPT !.vertex = @ \cup {"nodes"}]
    /\ UNCHANGED <<nodes, edges, resp, created, database, collections>>

\* if not graph.has_edge_definition("edges")
HasEdgeDefinition(p) ==
    /\ pc[p] = "has_edge_definition"
    /\ Goto(p, IF "edges" \in graph.edgeDefs THEN "returned"
               ELSE "create_edge_definition")
    /\ UNCHANGED <<nodes, edges, resp, created, database, collections, graph>>

\* graph.create_edge_definition(edge_collection="edges", ...); return db
CreateEdgeDefinition(p) ==
    /\ pc[p] = "create_edge_definition"
    /\ IF "edges" \in graph.edgeDefs
       THEN Goto(p, "raised") /\ UNCHANGED graph
       ELSE /\ Goto(p, "returned")
            /\ graph' = [graph EXCEPT !.edgeDefs = @ \cup {"edges"},
                                      !.vertex = @ \cup {"nodes"}]
    /\ UNCHANGED <<nodes, edges, resp, created, database, collections>>

get_db(p) ==
    \/ HasDatabase(p)
    \/ CreateDatabase(p)
    \/ HasNodes(p)
    \/ CreateNodes(p)
    \/ HasEdges(p)
    \/ CreateEdges(p)
    \/ HasGraph(p)
    \/ CreateGraph(p)
    \/ HasVertexCollection(p)
    \/ CreateVertexCollection(p)
    \/ HasEdgeDefinition(p)
    \/ CreateEdgeDefinition(p)

NextDb == \E p \in Procs : get_db(p)

SpecDb == InitDb /\ [][NextDb]_vars

----------------------------------------------------------------------------
(* Properties of get_node_neighbors (specification SpecGraph) *)

NeighborsDone == resp.op = "get_node_neighbors" /\ resp.status = 200
StartHandle == Handle(resp.req.node_id)

\* every stored edge joins two stored nodes
WellFormed ==
    \A e \in edges : \E a, b \in nodes :
        e["_from"] = Handle(a["_key"]) /\ e["_to"] = Handle(b["_key"])

RECURSIVE Within(_, _)
\* the handles at undirected distance at most k from handle s
Within(s, k) ==
    IF k = 0 THEN {s}
    ELSE LET W == Within(s, k - 1)
         IN  W \cup {e["_to"] : e \in {x \in edges : x["_from"] \in W}}
               \cup {e["_from"] : e \in {x \in edges : x["_to"] \in W}}

ReturnedIds == {resp.body.nodes[i].id : i \in 1..Len(resp.body.nodes)}
ReturnedEdgeIds == {resp.body.edges[i].id : i \in 1..Len(resp.body.edges)}

\* C1: over a stored graph (edges joining stored nodes), the ids that
\* get_node_neighbors(s, d) returns are those of s and of the nodes at
\* undirected distance 1..d from s, whatever the direction of the edges.
C1_NodeSet ==
    (NeighborsDone /\ WellFormed) =>
        ReturnedIds = {n["_key"] : n \in {m \in nodes :
                          Handle(m["_key"]) \in Within(StartHandle, resp.req.depth)}}

\* an expansion that reaches a node two hops away and follows an edge
\* pointing at the start node
C1_Witness ==
    /\ NeighborsDone /\ WellFormed
    /\ Cardinality(ReturnedIds) = 3
    /\ Within(StartHandle, 1) # Within(StartHandle, 2)
    /\ \E e \in edges : e["_to"] = StartHandle /\ e["_from"] # StartHandle

\* C2: the node sequence get_node_neighbors returns holds no id twice.
C2_NoDuplicateIds ==
    NeighborsDone =>
        \A i, j \in 1..Len(resp.body.nodes) :
            i # j => resp.body.nodes[i].id # resp.body.nodes[j].id

\* C3 (as claimed): the edges get_node_neighbors returns are exactly the
\* stored edges with both endpoints in the returned node set, each once.
C3_Induced ==
    (NeighborsDone /\ WellFormed) =>
        /\ ReturnedEdgeIds =
             {e["_key"] : e \in {x \in edges :
                 /\ x["_from"] \in {Handle(id) : id \in ReturnedIds}
                 /\ x["_to"] \in {Handle(id) : id \in ReturnedIds}}}
        /\ Len(resp.body.edges) = Cardinality(ReturnedEdgeIds)

\* C3 (amended): the edges get_node_neighbors(s, d) returns are exactly the
\* stored edges with an endpoint at undirected distance at most d-1 from s,
\* each once; over a stored graph both endpoints of each are returned nodes.
C3_Traversed ==
    NeighborsDone =>
        /\ ReturnedEdgeIds =
             {e["_key"] : e \in {x \in edges :
                 \/ x["_from"] \in Within(StartHandle, resp.req.depth - 1)
                 \/ x["_to"] \in Within(StartHandle, resp.req.depth - 1)}}
        /\ Len(resp.body.edges) = Cardinality(ReturnedEdgeIds)
        /\ WellFormed =>
             \A i \in 1..Len(resp.body.edges) :
                /\ resp.body.edges[i].from_node \in {Handle(id) : id \in ReturnedIds}
                /\ resp.body.edges[i].to_node \in {Handle(id) : id \in ReturnedIds}

\* an expansion that returns some edges and leaves out a stored edge joining
\* two returned nodes
C3_Witness ==
    /\ NeighborsDone /\ WellFormed
    /\ ReturnedEdgeIds # {}
    /\ \E e \in edges :
          /\ e["_key"] \notin ReturnedEdgeIds
          /\ e["_from"] \in {Handle(id) : id \in ReturnedIds}
          /\ e["_to"] \in {Handle(id) : id \in ReturnedIds}

\* C9 (as claimed): each returned edge's from_node and to_node equal the id
\* of a node of the same result.
C9_EndpointsAreIds ==
    (NeighborsDone /\ WellFormed) =>
        \A i \in 1..Len(resp.body.edges) :
            /\ resp.body.edges[i].from_node \in ReturnedIds
            /\ resp.body.edges[i].to_node \in ReturnedIds

\* C9 (amended): each returned edge's from_node and to_node are the document
\* handles "nodes/<id>" of nodes of the same result, and none is a node id.
C9_EndpointsAreHandles ==
    (NeighborsDone /\ WellFormed) =>
        \A i \in 1..Len(resp.body.edges) :
            /\ \E j \in 1..Len(resp.body.nodes) :
                  resp.body.edges[i].from_node = Handle(resp.body.nodes[j].id)
            /\ \E j \in 1..Len(resp.body.nodes) :
                  resp.body.edges[i].to_node = Handle(resp.body.nodes[j].id)
            /\ resp.body.edges[i].from_node \notin {n["_key"] : n \in nodes}
            /\ resp.body.edges[i].to_node \notin {n["_key"] : n \in nodes}

\* an expansion returning two edges, one of them leaving the start node
C9_Witness ==
    /\ NeighborsDone /\ WellFormed
    /\ Len(resp.body.edges) >= 2
    /\ \E i \in 1..Len(resp.body.edges) :
          /\ resp.body.edges[i].from_node = StartHandle
          /\ resp.body.edges[i].to_node # StartHandle

----------------------------------------------------------------------------
(* Properties of the error paths (specification SpecFail) *)

\* the last request looked up an id that names no stored node
MissingLookup ==
    \/ /\ resp.op = "get_node"
       /\ ~\E d \in nodes : d["_key"] = resp.req
    \/ /\ resp.op = "get_node_neighbors"
       /\ ValidDepth(resp.req.depth)
       /\ ~\E d \in nodes : d["_key"] = resp.req.node_id

\* C4: get_node and get_node_neighbors on an id that names no stored node
\* return no Node or Graph and never run the traversal query; when the store
\* answers the lookup they end with 404, not with 500.
C4_NotFound ==
    MissingLookup =>
        /\ resp.status # 200
        /\ resp.body = None
        /\ "execute" \notin Range(resp.calls)
        /\ resp.fault = 0 => resp.status = 404

\* a neighbourhood request for an absent id over a non-empty store, answered 404
C4_Witness ==
    /\ MissingLookup
    /\ resp.op = "get_node_neighbors"
    /\ nodes # {}
    /\ resp.fault = 0
    /\ resp.status = 404

\* C5: a request during which a store call fails ends with 500, its detail
\* carries the message of the cause, the failing call is the last store call
\* of the request, and nothing is returned.
C5_FailureSurfaces ==
    resp.fault > 0 =>
        /\ resp.status = 500
        /\ resp.detail.cause = ErrMsg(resp.calls[resp.fault])
        /\ Len(resp.calls) = resp.fault
        /\ resp.body = None

----------------------------------------------------------------------------
(* Properties of creation and listing (specification Spec) *)

\* C6: get_node on the id a create_node call returned gives that id and the
\* label, type and properties of the input; no properties reads back as {}.
C6_RoundTrip ==
    (resp.op = "get_node" /\ resp.req \in DOMAIN created) =>
        /\ resp.status = 200
        /\ resp.body.id = resp.req
        /\ resp.body.label = created[resp.req]["label"]
        /\ resp.body.type = created[resp.req]["type"]
        /\ resp.body.properties = Get(created[resp.req], "properties", EmptyMap)

\* a node created without properties, read back after another node and an
\* edge were created
C6_Witness ==
    /\ resp.op = "get_node" /\ resp.status = 200
    /\ resp.req \in DOMAIN created
    /\ "properties" \notin DOMAIN created[resp.req]
    /\ resp.body.properties = EmptyMap
    /\ Cardinality(nodes) = 2
    /\ edges # {}

\* C7: a node created from an input that carries an id is returned with that id.
C7_InputIdKept ==
    (/\ resp.op = "create_node" /\ resp.status = 201
     /\ "id" \in DOMAIN resp.req /\ resp.req["id"] # None) =>
        resp.body["id"] = resp.req["id"]

\* C8: get_nodes with a type filter t and a limit in 1..1000 returns at most
\* limit nodes, all of type t; a limit outside (0, 1000] is rejected as a
\* validation error, no query being run; get_edges and get_graph obey the
\* limit too.
C8_FilterAndLimit ==
    /\ (resp.op = "get_nodes" /\ resp.status = 200 /\ resp.req.type # NoType) =>
          /\ Len(resp.body) <= resp.req.limit
          /\ \A i \in 1..Len(resp.body) : resp.body[i].type = resp.req.type
    /\ (resp.op \in {"get_nodes", "get_edges", "get_graph"}
          /\ ~ValidLimit(resp.req.limit)) =>
          resp.status = 422 /\ "execute" \notin Range(resp.calls)
    /\ (resp.op = "get_edges" /\ resp.status = 200) =>
          Len(resp.body) <= resp.req.limit
    /\ (resp.op = "get_graph" /\ resp.status = 200) =>
          /\ Len(resp.body.nodes) <= resp.req.limit
          /\ Len(resp.body.edges) <= resp.req.limit

----------------------------------------------------------------------------
(* Property of get_db (specification SpecDb) *)

FullyInitialised ==
    /\ database
    /\ {"nodes", "edges"} \subseteq collections
    /\ graph.exists
    /\ "nodes" \in graph.vertex
    /\ "edges" \in graph.edgeDefs

\* C10: whenever a get_db call has returned a handle, the collections exist
\* and the graph 'webgraph' has its vertex collection and edge definition.
C10_ReadyOnReturn ==
    \A p \in Procs : pc[p] = "returned" => FullyInitialised
====
